---- MODULE Spec2Model ----
\* Rooms: booking lifecycle of backend/src/app.ts (GET, POST, PATCH and DELETE
\* /api/bookings) over the Prisma store, with concurrent requests interleaved at
\* every await; and the booking form of frontend/src/Components (BookingForm
\* in BookingsPage), with its save requests in flight.
EXTENDS Integers, Sequences, FiniteSets, TLC

\* ---------------------------------------------------------------- bounds
MaxTime == 2
MaxBookings == 4
NumProcs == 2
MaxRequests == 2

Procs == 1..NumProcs
Rooms == {"r1", "r2"}
Titles == {"a", "b"}
Dates == 0..MaxTime
BookingIds == 1..MaxBookings

\* ---------------------------------------------------------------- values
\* new Date(undefined): the Invalid Date a PATCH body without the field yields
NoDate == -1
\* a PATCH body without title: undefined, which Prisma's update skips
NoTitle == "undefined"
\* an id no booking has
NoId == 0
\* no row / no value
NoBooking == [roomId |-> "none", title |-> "none", startTime |-> NoDate, endTime |-> NoDate]
RoomStatus == {"available", "booked", "maintenance"}

VARIABLES
    bookings,   \* Booking table: id -> row, NoBooking where there is no row
    nextId,     \* next fresh booking id (cuid)
    status,     \* Room table: room id -> status column
    pc,         \* per request slot: the await the handler is suspended at
    params,     \* per request slot: request.params and request.body
    local,      \* per request slot: the handler's local constants
    reply,      \* per request slot: reply.code(...).send(...)
    started,    \* number of requests received so far
    store0,     \* history: the tables the service started on
    form,       \* BookingForm: its useState values
    editingBooking, \* BookingsPage: the booking being edited, or null
    saves       \* BookingForm: the save requests awaiting their answer, and how
                \* the last answered one settled

vars == <<bookings, nextId, status, pc, params, local, reply, started, store0, form, editingBooking, saves>>

NoParams == [op |-> "none", id |-> NoId, roomId |-> "none", title |-> NoTitle,
             startTime |-> NoDate, endTime |-> NoDate]
NoLocal == [roomId |-> "none", newBooking |-> NoId, error |-> "none"]
NoReply == [code |-> 0, conflicts |-> <<>>, booking |-> NoBooking, bookingsDto |-> <<>>]

Exists(id) == id \in BookingIds /\ bookings[id] # NoBooking

\* ------------------------------------------------------- pure operators
\* every ordering of a finite set, as sequences
RECURSIVE Orderings(_)
Orderings(S) ==
    IF S = {} THEN {<<>>}
    ELSE UNION {{<<x>> \o t : t \in Orderings(S \ {x})} : x \in S}

\* the conflict filter with lte and gte for lt and gt: touching rows match
ConflictWhereInclusive(table, roomId, exclude, newStartTime, newEndTime) ==
    {i \in BookingIds :
        /\ table[i] # NoBooking
        /\ table[i].roomId = roomId
        /\ i # exclude
        /\ table[i].startTime <= newEndTime
        /\ table[i].endTime >= newStartTime}

\* the conflict filter without id: { not: id }: the updated row matches itself
ConflictWhereNoExclude(table, roomId, exclude, newStartTime, newEndTime) ==
    {i \in BookingIds :
        /\ table[i] # NoBooking
        /\ table[i].roomId = roomId
        /\ table[i].startTime < newEndTime
        /\ table[i].endTime > newStartTime}

\* the conflict filter with the endTime test left out: every row of the room
\* that starts before the new end matches
ConflictWhereStartOnly(table, roomId, exclude, newStartTime, newEndTime) ==
    {i \in BookingIds :
        /\ table[i] # NoBooking
        /\ table[i].roomId = roomId
        /\ i # exclude
        /\ table[i].startTime < newEndTime}

\* the conflict filter with lte for lt on startTime: a row that starts where
\* the new interval ends matches
ConflictWhereStartLte(table, roomId, exclude, newStartTime, newEndTime) ==
    {i \in BookingIds :
        /\ table[i] # NoBooking
        /\ table[i].roomId = roomId
        /\ i # exclude
        /\ table[i].startTime <= newEndTime
        /\ table[i].endTime > newStartTime}

\* the conflict filter with the room test left out: rows of every room match
ConflictWhereAnyRoom(table, roomId, exclude, newStartTime, newEndTime) ==
    {i \in BookingIds :
        /\ table[i] # NoBooking
        /\ i # exclude
        /\ table[i].startTime < newEndTime
        /\ table[i].endTime > newStartTime}

\* where: { roomId, id: { not: id }, startTime: { lt: newEndTime }, endTime: { gt: newStartTime } }
\* over the rows of table (exclude = NoId for createBooking, whose where clause
\* has no id filter)
ConflictWhere(table, roomId, exclude, newStartTime, newEndTime) ==
    {i \in BookingIds :
        /\ table[i] # NoBooking
        /\ table[i].roomId = roomId
        /\ i # exclude
        /\ table[i].startTime < newEndTime
        /\ table[i].endTime > newStartTime}

\* conflictingBookings.map(b => ({ id, title, startTime, endTime }))
ConflictDto(i) ==
    [id |-> i, title |-> bookings[i].title,
     startTime |-> bookings[i].startTime, endTime |-> bookings[i].endTime]

\* findMany without orderBy: the rows come back in an order the store chooses
FindManyResults(ids) ==
    {[k \in 1..Len(o) |-> ConflictDto(o[k])] : o \in Orderings(ids)}

\* ------------------------------------------------- frontend start values
\* useState(''): an empty input; the empty datetime-local input is the string
\* new Date(...) makes an Invalid Date of
EmptyInput == ""
EmptyTime == NoDate

\* useState<BookingDto | null>(null)
NullBooking == [id |-> NoId, title |-> EmptyInput, startTime |-> NoDate,
                endTime |-> NoDate, room |-> EmptyInput]

\* the form as it is mounted
NoForm == [title |-> EmptyInput, roomId |-> EmptyInput, startTime |-> EmptyTime,
           endTime |-> EmptyTime, success |-> FALSE, isLoading |-> FALSE]

\* no createBooking or updateBooking promise yet
NoSaves == [pending |-> <<>>, settled |-> "none"]

FormInit ==
    /\ form = NoForm
    /\ editingBooking = NullBooking
    /\ saves = NoSaves

\* ------------------------------------------------------------------ Init
\* the rows the service finds in its store when it starts: none, booking A, or
\* bookings A and B back to back in room r1; the page is freshly mounted
BookingA == [roomId |-> "r1", title |-> "a", startTime |-> 0, endTime |-> 1]
BookingB == [roomId |-> "r1", title |-> "b", startTime |-> 1, endTime |-> 2]
SeedStores == {<<>>, <<BookingA>>, <<BookingA, BookingB>>}

\* the Room table at start: r1 open for booking (booked once it has a booking),
\* r2 taken out of service by an administrator
InitStatus(seed) ==
    [r \in Rooms |-> IF r = "r2" THEN "maintenance"
                     ELSE IF Len(seed) > 0 THEN "booked" ELSE "available"]

Init ==
    /\ \E seed \in SeedStores :
          /\ bookings = [i \in BookingIds |-> IF i <= Len(seed) THEN seed[i] ELSE NoBooking]
          /\ nextId = Len(seed) + 1
          /\ status = InitStatus(seed)
    /\ pc = [p \in Procs |-> "idle"]
    /\ params = [p \in Procs |-> NoParams]
    /\ local = [p \in Procs |-> NoLocal]
    /\ reply = [p \in Procs |-> NoReply]
    /\ started = 0
    /\ store0 = [bookings |-> bookings, nextId |-> nextId, status |-> status]
    /\ FormInit

\* a request reaches its handler, which runs up to its first await: the slot
\* is free (its last reply has gone out) and the body is bound
Receive(p, body, label) ==
    /\ started' = started + 1
    /\ params' = [params EXCEPT ![p] = body]
    /\ local' = [local EXCEPT ![p] = NoLocal]
    /\ reply' = [reply EXCEPT ![p] = NoReply]
    /\ pc' = [pc EXCEPT ![p] = label]
    /\ UNCHANGED <<bookings, nextId, status, store0, form, editingBooking, saves>>

Free(p) == pc[p] \in {"idle", "done"} /\ started < MaxRequests

\* reply.code(...).send(...): the handler is over
Send(p, r) ==
    /\ reply' = [reply EXCEPT ![p] = r]
    /\ pc' = [pc EXCEPT ![p] = "done"]

\* the handler is suspended at the next await
Goto(p, label) ==
    /\ pc' = [pc EXCEPT ![p] = label]
    /\ UNCHANGED reply

\* a store call rejects with error and the handler answers with code
Caught(p, code, error) ==
    /\ Send(p, [NoReply EXCEPT !.code = code])
    /\ local' = [local EXCEPT ![p].error = error]

StoreUnchanged == UNCHANGED <<bookings, nextId, status>>

\* no row lock on the deleted booking: a second writer does not wait for the commit
BookingUnlocked(id, p) == FALSE

\* row locks held by an open deleteBooking transaction: the booking row from
\* tx.booking.delete and the room row from tx.room.update, both until commit
BookingLocked(id, p) ==
    \E q \in Procs \ {p} :
        /\ pc[q] \in {"d_roomUpdate", "d_commit"}
        /\ params[q].id = id

RoomLocked(r, p) ==
    \E q \in Procs \ {p} :
        /\ pc[q] = "d_commit"
        /\ local[q].roomId = r

\* params.id of a PATCH or DELETE: the id of a booking that has existed, or an
\* id no booking has
TargetIds == (1..(nextId - 1)) \cup {NoId}

\* ------------------------------------------------ POST /api/bookings
\* body schema: title, roomId, startTime, endTime required, the times any date-time
CreateBodies ==
    {[op |-> "create", id |-> NoId, roomId |-> r, title |-> t, startTime |-> s, endTime |-> e] :
        r \in Rooms, t \in Titles, s \in Dates, e \in Dates}

\* const newStartTime = new Date(startTime); const newEndTime = new Date(endTime)
StartCreate(p) ==
    /\ Free(p)
    /\ \E body \in CreateBodies : Receive(p, body, "c_findMany")

\* the conflict query of createBooking with a side effect: it marks the room
\* booked while it looks for conflicts
CreateFindManyMarks(p) ==
    /\ pc[p] = "c_findMany"
    /\ LET newStartTime == params[p].startTime
           newEndTime == params[p].endTime
           rows == ConflictWhere(bookings, params[p].roomId, NoId, newStartTime, newEndTime)
       IN  \E conflictingBookings \in FindManyResults(rows) :
              IF Len(conflictingBookings) > 0
              THEN Send(p, [NoReply EXCEPT !.code = 409,
                                              !.conflicts = conflictingBookings])
              ELSE Goto(p, "c_create")
    /\ status' = [status EXCEPT ![params[p].roomId] = "booked"]
    /\ UNCHANGED <<bookings, nextId>>
    /\ UNCHANGED <<params, local, started, store0, form, editingBooking, saves>>

\* const conflictingBookings = await app.prisma.booking.findMany({ where: ... }),
\* then the 409 branch
CreateFindMany(p) ==
    /\ pc[p] = "c_findMany"
    /\ LET newStartTime == params[p].startTime
           newEndTime == params[p].endTime
           rows == ConflictWhere(bookings, params[p].roomId, NoId, newStartTime, newEndTime)
       IN  \E conflictingBookings \in FindManyResults(rows) :
              IF Len(conflictingBookings) > 0
              THEN Send(p, [NoReply EXCEPT !.code = 409,
                                              !.conflicts = conflictingBookings])
              ELSE Goto(p, "c_create")
    /\ StoreUnchanged
    /\ UNCHANGED <<params, local, started, store0, form, editingBooking, saves>>

\* findMany rejects outside the try block: Fastify's error handler answers 500
CreateFindManyThrows(p) ==
    /\ pc[p] = "c_findMany"
    /\ Caught(p, 500, "store")
    /\ StoreUnchanged
    /\ UNCHANGED <<params, started, store0, form, editingBooking, saves>>

\* data: { title, roomId, startTime: newStartTime, endTime: newEndTime, ... }
NewBookingRow(body) ==
    [roomId |-> body.roomId, title |-> body.title,
     startTime |-> body.startTime, endTime |-> body.endTime]

\* const newBooking = await app.prisma.booking.create({ data: ... })
CreateBookingCreate(p) ==
    /\ pc[p] = "c_create"
    /\ nextId <= MaxBookings
    /\ bookings' = [bookings EXCEPT ![nextId] = NewBookingRow(params[p])]
    /\ nextId' = nextId + 1
    /\ local' = [local EXCEPT ![p].newBooking = nextId]
    /\ Goto(p, "c_roomUpdate")
    /\ UNCHANGED <<status, params, started, store0, form, editingBooking, saves>>

\* booking.create rejects: catch answers 500
CreateBookingCreateThrows(p) ==
    /\ pc[p] = "c_create"
    /\ Caught(p, 500, "store")
    /\ StoreUnchanged
    /\ UNCHANGED <<params, started, store0, form, editingBooking, saves>>

\* the status write of createBooking leaving a room in maintenance as it is
StatusOnCreateKeep(old) == IF old = "maintenance" THEN old ELSE "booked"

\* data: { status: 'booked' }
StatusOnCreate(old) == "booked"

\* await app.prisma.room.update({ where: { id: roomId }, data: { status: 'booked' } }),
\* which waits for the room's row lock; reply.code(201).send(newBooking)
CreateRoomUpdate(p) ==
    /\ pc[p] = "c_roomUpdate"
    /\ ~RoomLocked(params[p].roomId, p)
    /\ status' = [status EXCEPT ![params[p].roomId] = StatusOnCreate(@)]
    /\ Send(p, [NoReply EXCEPT !.code = 201, !.booking = NewBookingRow(params[p])])
    /\ UNCHANGED <<bookings, nextId, params, local, started, store0, form, editingBooking, saves>>

\* room.update rejects after the insert: catch answers 500
CreateRoomUpdateThrows(p) ==
    /\ pc[p] = "c_roomUpdate"
    /\ Caught(p, 500, "store")
    /\ StoreUnchanged
    /\ UNCHANGED <<params, started, store0, form, editingBooking, saves>>

\* ------------------------------------------- DELETE /api/bookings/:id
DeleteBodies == {[NoParams EXCEPT !.op = "delete", !.id = id] : id \in TargetIds}

\* const { id } = request.params; app.prisma.$transaction opens
StartDelete(p) ==
    /\ Free(p)
    /\ \E body \in DeleteBodies : Receive(p, body, "d_findUnique")

\* const booking = await tx.booking.findUniqueOrThrow({ where: { id } }):
\* throws when there is no row (rollback, catch answers 404)
DeleteFindUnique(p) ==
    /\ pc[p] = "d_findUnique"
    /\ IF Exists(params[p].id)
       THEN /\ local' = [local EXCEPT ![p].roomId = bookings[params[p].id].roomId]
            /\ Goto(p, "d_delete")
       ELSE Caught(p, 404, "notfound")
    /\ StoreUnchanged
    /\ UNCHANGED <<params, started, store0, form, editingBooking, saves>>

\* await tx.booking.delete({ where: { id } }): waits for the row lock, and
\* throws when the row is gone (rollback, catch answers 404)
DeleteBookingDelete(p) ==
    /\ pc[p] = "d_delete"
    /\ ~BookingLocked(params[p].id, p)
    /\ IF Exists(params[p].id)
       THEN Goto(p, "d_roomUpdate") /\ UNCHANGED local
       ELSE Caught(p, 404, "notfound")
    /\ StoreUnchanged
    /\ UNCHANGED <<params, started, store0, form, editingBooking, saves>>

\* await tx.room.update({ where: { id: booking.roomId }, data: { status: 'available' } }):
\* written inside the transaction, waits for the room's row lock
DeleteRoomUpdate(p) ==
    /\ pc[p] = "d_roomUpdate"
    /\ ~RoomLocked(local[p].roomId, p)
    /\ Goto(p, "d_commit")
    /\ StoreUnchanged
    /\ UNCHANGED <<params, local, started, store0, form, editingBooking, saves>>

\* the status write of deleteBooking left out: the room keeps its status
StatusOnDeleteKeep(old) == old

\* data: { status: 'available' }
StatusOnDelete(old) == "available"

\* $transaction commits: both writes become visible; reply.code(204).send()
DeleteCommit(p) ==
    /\ pc[p] = "d_commit"
    /\ bookings' = [bookings EXCEPT ![params[p].id] = NoBooking]
    /\ status' = [status EXCEPT ![local[p].roomId] = StatusOnDelete(@)]
    /\ Send(p, [NoReply EXCEPT !.code = 204])
    /\ UNCHANGED <<nextId, params, local, started, store0, form, editingBooking, saves>>

\* a statement of the transaction or its commit rejects: rollback, catch answers 404
DeleteThrows(p) ==
    /\ pc[p] \in {"d_findUnique", "d_delete", "d_roomUpdate", "d_commit"}
    /\ Caught(p, 404, "store")
    /\ StoreUnchanged
    /\ UNCHANGED <<params, started, store0, form, editingBooking, saves>>

\* ------------------------------------------- PATCH /api/bookings/:id
\* body schema: every field optional; an absent title stays undefined
UpdateBodies ==
    {[op |-> "update", id |-> id, roomId |-> "none", title |-> t, startTime |-> s, endTime |-> e] :
        id \in TargetIds, t \in Titles \cup {NoTitle},
        s \in Dates \cup {NoDate}, e \in Dates \cup {NoDate}}

\* const newStartTime = new Date(startTime); const newEndTime = new Date(endTime):
\* an absent field becomes new Date(undefined), the Invalid Date
StartUpdate(p) ==
    /\ Free(p)
    /\ \E body \in UpdateBodies : Receive(p, body, "u_findUnique")

\* const existingBooking = await app.prisma.booking.findUnique(...); 404 when null
UpdateFindUnique(p) ==
    /\ pc[p] = "u_findUnique"
    /\ IF Exists(params[p].id)
       THEN /\ local' = [local EXCEPT ![p].roomId = bookings[params[p].id].roomId]
            /\ Goto(p, "u_findMany")
       ELSE /\ Send(p, [NoReply EXCEPT !.code = 404])
            /\ UNCHANGED local
    /\ StoreUnchanged
    /\ UNCHANGED <<params, started, store0, form, editingBooking, saves>>

\* Prisma rejects a query whose Date argument is an Invalid Date
InvalidDateArgs(newStartTime, newEndTime) ==
    newStartTime = NoDate \/ newEndTime = NoDate

\* const conflictingBookings = await app.prisma.booking.findMany({ where: { ...,
\* id: { not: id }, ... } }), then the 409 branch; with an Invalid Date the
\* query throws and catch answers 404
UpdateFindMany(p) ==
    /\ pc[p] = "u_findMany"
    /\ LET newStartTime == params[p].startTime
           newEndTime == params[p].endTime
           rows == ConflictWhere(bookings, local[p].roomId, params[p].id,
                                 newStartTime, newEndTime)
       IN  IF InvalidDateArgs(newStartTime, newEndTime)
           THEN Caught(p, 404, "validation")
           ELSE /\ \E conflictingBookings \in FindManyResults(rows) :
                      IF Len(conflictingBookings) > 0
                      THEN Send(p, [NoReply EXCEPT !.code = 409,
                                                      !.conflicts = conflictingBookings])
                      ELSE Goto(p, "u_update")
                /\ UNCHANGED local
    /\ StoreUnchanged
    /\ UNCHANGED <<params, started, store0, form, editingBooking, saves>>

\* booking.update with roomId among its data: the row takes the body's roomId
UpdatedRowWithRoom(row, body) ==
    [row EXCEPT !.roomId = body.roomId,
                !.title = IF body.title = NoTitle THEN @ ELSE body.title,
                !.startTime = body.startTime,
                !.endTime = body.endTime]

\* data: { title, startTime: newStartTime, endTime: newEndTime }, where an
\* undefined title leaves the column as it is
UpdatedRow(row, body) ==
    [row EXCEPT !.title = IF body.title = NoTitle THEN @ ELSE body.title,
                !.startTime = body.startTime,
                !.endTime = body.endTime]

\* booking.upsert in place of booking.update: a row that is gone is written anew
UpdateBookingUpsert(p) ==
    /\ pc[p] = "u_update"
    /\ ~BookingLocked(params[p].id, p)
    /\ LET old == IF Exists(params[p].id) THEN bookings[params[p].id]
                  ELSE [NoBooking EXCEPT !.roomId = local[p].roomId]
           updatedBooking == UpdatedRow(old, params[p])
       IN  /\ bookings' = [bookings EXCEPT ![params[p].id] = updatedBooking]
           /\ Send(p, [NoReply EXCEPT !.code = 200, !.booking = updatedBooking])
           /\ UNCHANGED local
    /\ UNCHANGED <<nextId, status, params, started, store0, form, editingBooking, saves>>

\* const updatedBooking = await app.prisma.booking.update(...): waits for the
\* row lock, and throws when the row is gone (catch answers 404);
\* reply.code(200).send(updatedBooking)
UpdateBookingUpdate(p) ==
    /\ pc[p] = "u_update"
    /\ ~BookingLocked(params[p].id, p)
    /\ IF Exists(params[p].id)
       THEN LET updatedBooking == UpdatedRow(bookings[params[p].id], params[p])
            IN  /\ bookings' = [bookings EXCEPT ![params[p].id] = updatedBooking]
                /\ Send(p, [NoReply EXCEPT !.code = 200, !.booking = updatedBooking])
                /\ UNCHANGED local
       ELSE /\ Caught(p, 404, "notfound")
            /\ UNCHANGED bookings
    /\ UNCHANGED <<nextId, status, params, started, store0, form, editingBooking, saves>>

\* a store call inside the try block rejects: catch answers 404
UpdateThrows(p) ==
    /\ pc[p] \in {"u_findUnique", "u_findMany", "u_update"}
    /\ Caught(p, 404, "store")
    /\ StoreUnchanged
    /\ UNCHANGED <<params, started, store0, form, editingBooking, saves>>

\* ---------------------------------------------------- GET /api/bookings
ListBodies == {[NoParams EXCEPT !.op = "list"]}

\* async (_req, _reply) => { ... }: the handler takes nothing from the request
StartList(p) ==
    /\ Free(p)
    /\ \E body \in ListBodies : Receive(p, body, "l_findMany")

\* bookings.map(booking => ({ id, title, startTime, endTime, room: { id, ... } }))
BookingDto(i) ==
    [id |-> i, title |-> bookings[i].title,
     startTime |-> bookings[i].startTime, endTime |-> bookings[i].endTime,
     room |-> bookings[i].roomId]

\* orderBy: { startTime: 'asc' } in place of 'desc'
OrderByStartTimeAsc(ids) ==
    {o \in Orderings(ids) :
        \A k \in 1..(Len(o) - 1) : bookings[o[k]].startTime <= bookings[o[k + 1]].startTime}

\* orderBy: { startTime: 'desc' }: rows of equal startTime in an order the
\* store chooses
OrderByStartTimeDesc(ids) ==
    {o \in Orderings(ids) :
        \A k \in 1..(Len(o) - 1) : bookings[o[k]].startTime >= bookings[o[k + 1]].startTime}

\* const bookings = await app.prisma.booking.findMany({ include, orderBy });
\* return bookingsDto, which Fastify sends with 200
ListFindMany(p) ==
    /\ pc[p] = "l_findMany"
    /\ \E o \in OrderByStartTimeDesc({i \in BookingIds : bookings[i] # NoBooking}) :
          Send(p, [NoReply EXCEPT !.code = 200,
                                  !.bookingsDto = [k \in 1..Len(o) |-> BookingDto(o[k])]])
    /\ StoreUnchanged
    /\ UNCHANGED <<params, local, started, store0, form, editingBooking, saves>>

\* findMany rejects: Fastify's error handler answers 500
ListFindManyThrows(p) ==
    /\ pc[p] = "l_findMany"
    /\ Caught(p, 500, "store")
    /\ StoreUnchanged
    /\ UNCHANGED <<params, started, store0, form, editingBooking, saves>>

\* ------------------------------------------------------------- service
Next ==
    \E p \in Procs :
        \/ StartCreate(p)
        \/ CreateFindMany(p)
        \/ CreateFindManyThrows(p)
        \/ CreateBookingCreate(p)
        \/ CreateBookingCreateThrows(p)
        \/ CreateRoomUpdate(p)
        \/ CreateRoomUpdateThrows(p)
        \/ StartDelete(p)
        \/ DeleteFindUnique(p)
        \/ DeleteBookingDelete(p)
        \/ DeleteRoomUpdate(p)
        \/ DeleteCommit(p)
        \/ DeleteThrows(p)
        \/ StartUpdate(p)
        \/ UpdateFindUnique(p)
        \/ UpdateFindMany(p)
        \/ UpdateBookingUpdate(p)
        \/ UpdateThrows(p)
        \/ StartList(p)
        \/ ListFindMany(p)
        \/ ListFindManyThrows(p)

Spec == Init /\ [][Next]_vars

\* a service started on a store without bookings whose rooms are all available
InitAvailable ==
    /\ bookings = [i \in BookingIds |-> NoBooking]
    /\ nextId = 1
    /\ status = [r \in Rooms |-> "available"]
    /\ pc = [p \in Procs |-> "idle"]
    /\ params = [p \in Procs |-> NoParams]
    /\ local = [p \in Procs |-> NoLocal]
    /\ reply = [p \in Procs |-> NoReply]
    /\ started = 0
    /\ store0 = [bookings |-> bookings, nextId |-> nextId, status |-> status]
    /\ FormInit

SpecAvailable == InitAvailable /\ [][Next]_vars

\* ------------------------------------------- BookingsPage and BookingForm
\* the browser's zone: local time is UTC plus this (minus getTimezoneOffset())
TzShift == 1

\* new Date(t.getTime() - t.getTimezoneOffset() * 60000).toISOString().slice(0, 16):
\* the datetime-local input value of a UTC time
ToLocalInput(t) == t + TzShift

\* new Date(input).toISOString(): the UTC time of a datetime-local input value
ToUtc(input) == input - TzShift

TitleInputs == Titles \cup {EmptyInput}
RoomInputs == Rooms \cup {EmptyInput}
TimeInputs == {ToLocalInput(t) : t \in Dates} \cup {EmptyTime}

BackendUnchanged ==
    UNCHANGED <<bookings, nextId, status, pc, params, local, reply, started, store0>>

\* disabled={isLoading} with every input and the submit button always enabled
ControlsNeverDisabled(f) == FALSE

\* disabled={isLoading} on the inputs, the submit button and the form's cancel button
ControlsDisabled(f) == f.isLoading

\* useEffect(..., [editingBooking]): the fields follow the booking being edited
EditingEffect(f, booking) ==
    IF booking # NullBooking
    THEN [f EXCEPT !.title = booking.title,
                   !.roomId = booking.room,
                   !.startTime = ToLocalInput(booking.startTime),
                   !.endTime = ToLocalInput(booking.endTime)]
    ELSE [f EXCEPT !.title = EmptyInput, !.roomId = EmptyInput,
                   !.startTime = EmptyTime, !.endTime = EmptyTime]

\* onChange={(e) => setTitle(e.target.value)}
SetTitle ==
    /\ ~ControlsDisabled(form)
    /\ \E v \in TitleInputs : form' = [form EXCEPT !.title = v]
    /\ UNCHANGED <<editingBooking, saves>>
    /\ BackendUnchanged

\* onChange={(e) => setRoomId(e.target.value)}, disabled={isLoading || !!editingBooking}
SetRoomId ==
    /\ ~ControlsDisabled(form)
    /\ editingBooking = NullBooking
    /\ \E v \in RoomInputs : form' = [form EXCEPT !.roomId = v]
    /\ UNCHANGED <<editingBooking, saves>>
    /\ BackendUnchanged

\* onChange={(e) => setStartTime(e.target.value)}
SetStartTime ==
    /\ ~ControlsDisabled(form)
    /\ \E v \in TimeInputs : form' = [form EXCEPT !.startTime = v]
    /\ UNCHANGED <<editingBooking, saves>>
    /\ BackendUnchanged

\* onChange={(e) => setEndTime(e.target.value)}
SetEndTime ==
    /\ ~ControlsDisabled(form)
    /\ \E v \in TimeInputs : form' = [form EXCEPT !.endTime = v]
    /\ UNCHANGED <<editingBooking, saves>>
    /\ BackendUnchanged

\* handleEditBooking: the list's edit button, which runs the effect
HandleEditBooking ==
    /\ \E i \in BookingIds :
          /\ Exists(i)
          /\ editingBooking' = BookingDto(i)
          /\ form' = EditingEffect(form, BookingDto(i))
    /\ UNCHANGED saves
    /\ BackendUnchanged

\* the page's cancel button: onClick={() => setEditingBooking(null)}
PageCancelEdit ==
    /\ editingBooking # NullBooking
    /\ editingBooking' = NullBooking
    /\ form' = EditingEffect(form, NullBooking)
    /\ UNCHANGED saves
    /\ BackendUnchanged

\* the form's cancel button: onClick={onCancelEdit}, disabled={isLoading}
FormCancelEdit ==
    /\ editingBooking # NullBooking
    /\ ~ControlsDisabled(form)
    /\ editingBooking' = NullBooking
    /\ form' = EditingEffect(form, NullBooking)
    /\ UNCHANGED saves
    /\ BackendUnchanged

\* if (!roomId || !title || !startTime || !endTime) return
RequiredMissing(f) ==
    \/ f.roomId = EmptyInput
    \/ f.title = EmptyInput
    \/ f.startTime = EmptyTime
    \/ f.endTime = EmptyTime

\* the body of the updateBooking or createBooking call
SaveRequest(f, booking) ==
    [op |-> IF booking # NullBooking THEN "update" ELSE "create",
     id |-> booking.id,
     roomId |-> f.roomId,
     title |-> f.title,
     startTime |-> ToUtc(f.startTime),
     endTime |-> ToUtc(f.endTime)]

\* handleSubmit up to its await: the required-field check, setIsLoading(true)
\* and the call of updateBooking or createBooking
HandleSubmit ==
    /\ ~ControlsDisabled(form)
    /\ IF RequiredMissing(form)
       THEN UNCHANGED <<form, saves>>
       ELSE /\ form' = [form EXCEPT !.isLoading = TRUE]
            /\ saves' = [saves EXCEPT !.pending = Append(@, SaveRequest(form, editingBooking))]
    /\ UNCHANGED editingBooking
    /\ BackendUnchanged

\* the pending requests without the k-th
Settle(k) == [j \in 1..(Len(saves.pending) - 1) |->
                 IF j < k THEN saves.pending[j] ELSE saves.pending[j + 1]]

\* the awaited call resolves: setSuccess(true), the fields are cleared,
\* onBookingSaved() sets editingBooking to null, finally setIsLoading(false)
SaveResolves ==
    /\ \E k \in 1..Len(saves.pending) :
          saves' = [pending |-> Settle(k), settled |-> "fulfilled"]
    /\ form' = [title |-> EmptyInput, roomId |-> EmptyInput, startTime |-> EmptyTime,
                endTime |-> EmptyTime, success |-> TRUE, isLoading |-> FALSE]
    /\ editingBooking' = NullBooking
    /\ BackendUnchanged

\* the awaited call rejects: catch alerts, finally setIsLoading(false)
SaveRejects ==
    /\ \E k \in 1..Len(saves.pending) :
          saves' = [pending |-> Settle(k), settled |-> "rejected"]
    /\ form' = [form EXCEPT !.isLoading = FALSE]
    /\ UNCHANGED editingBooking
    /\ BackendUnchanged

\* Snackbar onClose={() => setSuccess(false)}
CloseSnackbar ==
    /\ form.success
    /\ form' = [form EXCEPT !.success = FALSE]
    /\ UNCHANGED <<editingBooking, saves>>
    /\ BackendUnchanged

NextForm ==
    \/ SetTitle
    \/ SetRoomId
    \/ SetStartTime
    \/ SetEndTime
    \/ HandleEditBooking
    \/ PageCancelEdit
    \/ FormCancelEdit
    \/ HandleSubmit
    \/ SaveResolves
    \/ SaveRejects
    \/ CloseSnackbar

\* the page in a browser, over the bookings the service started on
SpecForm == Init /\ [][NextForm]_vars

TypeOK ==
    /\ nextId \in 1..(MaxBookings + 1)
    /\ status \in [Rooms -> RoomStatus]
    /\ \A i \in BookingIds : i >= nextId => bookings[i] = NoBooking

\* ---------------------------------------------------------------- claims
\* the half-open rule: [s1,e1) and [s2,e2) overlap iff s1 < e2 and s2 < e1
Overlaps(a, b) == a.startTime < b.endTime /\ b.startTime < a.endTime

Stored == {i \in BookingIds : bookings[i] # NoBooking}

Running(p) == pc[p] \notin {"idle", "done"}

\* p's handler sends its reply in this step
Replies(p) == Running(p) /\ pc'[p] = "done"

\* C1: in every state, no two stored bookings of one room overlap under the
\* half-open rule.
C1_NoOverlap ==
    \A i, j \in Stored :
        (i # j /\ bookings[i].roomId = bookings[j].roomId)
            => ~Overlaps(bookings[i], bookings[j])

\* C2: of two createBooking requests for the same room and the same well-formed
\* interval, on a store where nothing overlaps that interval and with no store
\* failure, exactly one answers 201 and the other 409, and one booking is stored.
C2_ExactlyOneCreate ==
    \A p, q \in Procs :
        ( /\ p # q
          /\ started = 2
          /\ pc[p] = "done" /\ pc[q] = "done"
          /\ params[p].op = "create" /\ params[q].op = "create"
          /\ params[p].roomId = params[q].roomId
          /\ params[p].startTime = params[q].startTime
          /\ params[p].endTime = params[q].endTime
          /\ params[p].startTime < params[p].endTime
          /\ local[p].error = "none" /\ local[q].error = "none"
          /\ ConflictWhere(store0.bookings, params[p].roomId, NoId,
                           params[p].startTime, params[p].endTime) = {} )
        => /\ {reply[p].code, reply[q].code} = {201, 409}
           /\ Cardinality({i \in Stored :
                  /\ bookings[i].roomId = params[p].roomId
                  /\ bookings[i].startTime = params[p].startTime
                  /\ bookings[i].endTime = params[p].endTime}) = 1

\* one request run alone, start to end, on the tables st with no store failure
SerialStep(st, body) ==
    LET present == body.id \in BookingIds /\ st.bookings[body.id] # NoBooking
        same == [bookings |-> st.bookings, nextId |-> st.nextId, status |-> st.status]
    IN  CASE body.op = "create" ->
              IF ConflictWhere(st.bookings, body.roomId, NoId,
                               body.startTime, body.endTime) # {}
              THEN [st |-> same, code |-> 409]
              ELSE [st |-> [bookings |-> [st.bookings EXCEPT ![st.nextId] = NewBookingRow(body)],
                            nextId |-> st.nextId + 1,
                            status |-> [st.status EXCEPT ![body.roomId] = StatusOnCreate(@)]],
                    code |-> 201]
          [] body.op = "update" ->
              IF ~present \/ InvalidDateArgs(body.startTime, body.endTime)
              THEN [st |-> same, code |-> 404]
              ELSE IF ConflictWhere(st.bookings, st.bookings[body.id].roomId, body.id,
                                    body.startTime, body.endTime) # {}
              THEN [st |-> same, code |-> 409]
              ELSE [st |-> [same EXCEPT !.bookings[body.id] = UpdatedRow(@, body)],
                    code |-> 200]
          [] body.op = "delete" ->
              IF ~present
              THEN [st |-> same, code |-> 404]
              ELSE [st |-> [same EXCEPT !.bookings[body.id] = NoBooking,
                                        !.status[st.bookings[body.id].roomId] = StatusOnDelete(@)],
                    code |-> 204]
          [] body.op = "list" -> [st |-> same, code |-> 200]
          [] OTHER -> [st |-> same, code |-> 0]

\* the requests of the slots in order, one after the other: the final tables
\* and the codes answered, in that order
RECURSIVE SerialRun(_, _)
SerialRun(st, order) ==
    IF order = <<>> THEN [st |-> st, codes |-> <<>>]
    ELSE LET first == SerialStep(st, params[Head(order)])
             rest == SerialRun(first.st, Tail(order))
         IN  [st |-> rest.st, codes |-> <<first.code>> \o rest.codes]

\* the rows of a table without their ids, each with its number of copies
RowBag(table) ==
    LET rows == {table[i] : i \in BookingIds} \ {NoBooking}
    IN  [r \in rows |-> Cardinality({i \in BookingIds : table[i] = r})]

\* C3: once the first requests of all slots have been answered without a store
\* failure, the stored bookings, the room statuses and the codes answered are
\* those of running the same requests one after the other in some order.
C3_Serializable ==
    ( /\ started = NumProcs
      /\ \A p \in Procs : pc[p] = "done" /\ local[p].error # "store" )
    => \E order \in Orderings(Procs) :
          LET run == SerialRun(store0, order)
          IN  /\ RowBag(run.st.bookings) = RowBag(bookings)
              /\ run.st.status = status
              /\ \A k \in 1..Len(order) : run.codes[k] = reply[order[k]].code

\* C4: a handler that answers 409, 404 or 500 has written nothing: the
\* answering step changes no table and the handler inserted no booking before it.
C4_FailureLeavesStore ==
    [][\A p \in Procs :
          (Replies(p) /\ reply'[p].code \in {409, 404, 500})
              => /\ bookings' = bookings
                 /\ status' = status
                 /\ local[p].newBooking = NoId]_vars

\* C5: when createBooking's conflict query returns, the request is answered
\* 409 exactly if some stored booking of the room overlaps [s,e); the conflicts
\* listed are then all the overlapping bookings, each once, and no table
\* changes; otherwise the handler goes on to insert.
C5_CreateConflict ==
    [][\A p \in Procs :
          (pc[p] = "c_findMany" /\ pc'[p] # "c_findMany" /\ local'[p].error = "none")
              => LET over == {i \in Stored :
                                /\ bookings[i].roomId = params[p].roomId
                                /\ Overlaps(bookings[i], params[p])}
                     listed == reply'[p].conflicts
                 IN  /\ (reply'[p].code = 409) <=> (over # {})
                     /\ over # {} =>
                          /\ pc'[p] = "done"
                          /\ {listed[k].id : k \in 1..Len(listed)} = over
                          /\ Len(listed) = Cardinality(over)
                          /\ \A k \in 1..Len(listed) :
                                /\ listed[k].title = bookings[listed[k].id].title
                                /\ listed[k].startTime = bookings[listed[k].id].startTime
                                /\ listed[k].endTime = bookings[listed[k].id].endTime
                          /\ bookings' = bookings /\ status' = status /\ nextId' = nextId
                     /\ over = {} => pc'[p] = "c_create"]_vars

\* a createBooking answered 409 with two conflicting bookings listed
C5_Witness ==
    \E p \in Procs :
        /\ pc[p] = "done"
        /\ params[p].op = "create"
        /\ reply[p].code = 409
        /\ Len(reply[p].conflicts) = 2

\* C6: the conflicts listed in a 409 answer are in ascending startTime order.
C6_ConflictsAscending ==
    \A p \in Procs :
        reply[p].code = 409 =>
            \A k \in 1..(Len(reply[p].conflicts) - 1) :
                reply[p].conflicts[k].startTime <= reply[p].conflicts[k + 1].startTime

\* C7: an updateBooking that supplies only a title, for a booking that exists
\* and with no store failure, is answered 200; and an updateBooking answered 200
\* leaves every column it did not supply as it was.
C7_UnsuppliedKept ==
    /\ [](\A p \in Procs :
            ( /\ pc[p] = "done"
              /\ params[p].op = "update"
              /\ params[p].title # NoTitle
              /\ params[p].startTime = NoDate /\ params[p].endTime = NoDate
              /\ local[p].roomId # "none"
              /\ local[p].error \notin {"store", "notfound"} )
            => reply[p].code = 200)
    /\ [][\A p \in Procs :
            (Replies(p) /\ params[p].op = "update" /\ reply'[p].code = 200)
                => LET old == bookings[params[p].id]
                       new == bookings'[params[p].id]
                   IN  /\ params[p].title = NoTitle => new.title = old.title
                       /\ params[p].startTime = NoDate => new.startTime = old.startTime
                       /\ params[p].endTime = NoDate => new.endTime = old.endTime
                       /\ new.roomId = old.roomId]_vars

\* C8: when updateBooking's conflict query returns, the updated booking is
\* never among the conflicts; and an update that keeps the booking's interval
\* is answered 409 exactly if a different stored booking of the room overlaps it.
C8_UpdateExcludesSelf ==
    [][\A p \in Procs :
          (pc[p] = "u_findMany" /\ pc'[p] # "u_findMany" /\ local'[p].error = "none")
              => LET id == params[p].id
                     others == {i \in Stored \ {id} :
                                  /\ bookings[i].roomId = local[p].roomId
                                  /\ Overlaps(bookings[i], params[p])}
                     listed == reply'[p].conflicts
                 IN  /\ \A k \in 1..Len(listed) : listed[k].id # id
                     /\ ( /\ Exists(id)
                          /\ params[p].startTime = bookings[id].startTime
                          /\ params[p].endTime = bookings[id].endTime )
                        => ((reply'[p].code = 409) <=> (others # {}))]_vars

\* the only request so far gave a booking a new title and the interval it
\* already had, and was answered 200
C8_Witness ==
    \E p \in Procs :
        /\ started = 1
        /\ pc[p] = "done"
        /\ params[p].op = "update"
        /\ reply[p].code = 200
        /\ params[p].id \in BookingIds
        /\ store0.bookings[params[p].id] # NoBooking
        /\ params[p].startTime = store0.bookings[params[p].id].startTime
        /\ params[p].endTime = store0.bookings[params[p].id].endTime
        /\ params[p].title \notin {NoTitle, store0.bookings[params[p].id].title}
        /\ bookings[params[p].id].title = params[p].title

\* C9: every stored booking has startTime < endTime.
C9_StartBeforeEnd ==
    \A i \in Stored : bookings[i].startTime < bookings[i].endTime

\* C10: no step takes a room out of maintenance, and no step puts a room into
\* maintenance.
C10_MaintenanceKept ==
    [][\A r \in Rooms :
          (status[r] = "maintenance") <=> (status'[r] = "maintenance")]_vars

\* C11: in no state has a createBooking inserted its booking while the status
\* of the booking's room is not yet the one the accompanying status write sets:
\* other requests never see the booking without its status write.
C11_CreateWritesTogether ==
    \A p \in Procs :
        (pc[p] = "c_roomUpdate" /\ Exists(local[p].newBooking))
            => status[params[p].roomId] = StatusOnCreate(status[params[p].roomId])

\* C12: when updateBooking's conflict query returns and a different stored
\* booking of the room overlaps the new interval, the request is answered 409,
\* the conflicts listed are exactly those bookings, each once, and no booking
\* and no room status changes (the handler has written nothing before).
C12_UpdateConflict ==
    [][\A p \in Procs :
          (pc[p] = "u_findMany" /\ pc'[p] # "u_findMany" /\ local'[p].error = "none")
              => LET id == params[p].id
                     others == {i \in Stored \ {id} :
                                  /\ bookings[i].roomId = local[p].roomId
                                  /\ Overlaps(bookings[i], params[p])}
                     listed == reply'[p].conflicts
                 IN  /\ others # {} =>
                          /\ pc'[p] = "done"
                          /\ reply'[p].code = 409
                     /\ reply'[p].code = 409 =>
                          /\ {listed[k].id : k \in 1..Len(listed)} = others
                          /\ Len(listed) = Cardinality(others)
                          /\ \A k \in 1..Len(listed) :
                                /\ listed[k].title = bookings[listed[k].id].title
                                /\ listed[k].startTime = bookings[listed[k].id].startTime
                                /\ listed[k].endTime = bookings[listed[k].id].endTime
                          /\ bookings' = bookings /\ status' = status
                          /\ local[p].newBooking = NoId]_vars

\* room r1 holds A = [0,1) and B = [1,2); the only request so far, updating A
\* to [0,2), was answered 409 with B as the one conflict and A is as it was
C12_Witness ==
    \E p \in Procs :
        /\ started = 1
        /\ pc[p] = "done"
        /\ params[p].op = "update"
        /\ params[p].id = 1
        /\ params[p].startTime = 0 /\ params[p].endTime = 2
        /\ store0.bookings[1] = BookingA /\ store0.bookings[2] = BookingB
        /\ reply[p].code = 409
        /\ Len(reply[p].conflicts) = 1
        /\ reply[p].conflicts[1].id = 2
        /\ bookings = store0.bookings

\* [s1,e1) and [s2,e2) touch: one starts where the other ends
Touches(a, b) == a.startTime = b.endTime \/ a.endTime = b.startTime

\* C13: when createBooking's conflict query returns for an interval that
\* touches a stored booking of the room and overlaps none, the request is not
\* answered 409 but goes on to insert; the insert stores the booking as given;
\* and run alone without a store failure such a request is answered 201 with
\* the booking stored.
C13_TouchingAccepted ==
    /\ [][\A p \in Procs :
            /\ (pc[p] = "c_findMany" /\ pc'[p] # "c_findMany" /\ local'[p].error = "none")
                  => LET inRoom == {i \in Stored : bookings[i].roomId = params[p].roomId}
                     IN  ( /\ \E i \in inRoom : Touches(bookings[i], params[p])
                           /\ \A i \in inRoom : ~Overlaps(bookings[i], params[p]) )
                         => pc'[p] = "c_create"
            /\ (pc[p] = "c_create" /\ pc'[p] = "c_roomUpdate")
                  => /\ ~Exists(local'[p].newBooking)
                     /\ bookings' = [bookings EXCEPT ![local'[p].newBooking] = NewBookingRow(params[p])]
                     /\ bookings'[local'[p].newBooking].roomId = params[p].roomId
                     /\ bookings'[local'[p].newBooking].startTime = params[p].startTime
                     /\ bookings'[local'[p].newBooking].endTime = params[p].endTime]_vars
    /\ [](\A p \in Procs :
            LET seeded == {i \in BookingIds : store0.bookings[i] # NoBooking}
                inRoom == {i \in seeded : store0.bookings[i].roomId = params[p].roomId}
            IN  ( /\ started = 1
                  /\ pc[p] = "done"
                  /\ params[p].op = "create"
                  /\ local[p].error = "none"
                  /\ \E i \in inRoom : Touches(store0.bookings[i], params[p])
                  /\ \A i \in inRoom : ~Overlaps(store0.bookings[i], params[p]) )
                => /\ reply[p].code = 201
                   /\ \E i \in Stored \ seeded :
                         /\ bookings[i].roomId = params[p].roomId
                         /\ bookings[i].startTime = params[p].startTime
                         /\ bookings[i].endTime = params[p].endTime)

\* room r1 holds A = [0,1); the only request so far, create [1,2) on r1, was
\* answered 201, the booking is stored next to A and r1 is booked
C13_Witness ==
    \E p \in Procs :
        /\ started = 1
        /\ pc[p] = "done"
        /\ params[p].op = "create"
        /\ params[p].roomId = "r1"
        /\ params[p].startTime = 1 /\ params[p].endTime = 2
        /\ store0.bookings[1] = BookingA /\ store0.bookings[2] = NoBooking
        /\ reply[p].code = 201
        /\ bookings[1] = BookingA
        /\ bookings[2].roomId = "r1" /\ bookings[2].startTime = 1 /\ bookings[2].endTime = 2
        /\ status["r1"] = "booked"

\* C14: when createBooking's conflict query returns while a stored booking of
\* the room has the same startTime and the same endTime as the request, the
\* request is answered 409.
C14_IdenticalRejected ==
    [][\A p \in Procs :
          (pc[p] = "c_findMany" /\ pc'[p] # "c_findMany" /\ local'[p].error = "none")
              => ( (\E i \in Stored :
                        /\ bookings[i].roomId = params[p].roomId
                        /\ bookings[i].startTime = params[p].startTime
                        /\ bookings[i].endTime = params[p].endTime)
                   => (pc'[p] = "done" /\ reply'[p].code = 409) )]_vars

\* C15: an updateBooking or deleteBooking whose existence check finds no
\* booking of the id is answered 404, and a handler of either that answers 404
\* without a store failure changes no booking and no status and answers so only
\* when no booking of the id is stored.
C15_NotFoundIffAbsent ==
    [][\A p \in Procs :
          /\ ( /\ pc[p] \in {"u_findUnique", "d_findUnique"}
               /\ pc'[p] # pc[p]
               /\ local'[p].error # "store"
               /\ ~Exists(params[p].id) )
             => /\ pc'[p] = "done"
                /\ reply'[p].code = 404
          /\ ( /\ Replies(p)
               /\ params[p].op \in {"update", "delete"}
               /\ reply'[p].code = 404
               /\ local'[p].error # "store" )
             => /\ bookings' = bookings
                /\ status' = status
                /\ ~Exists(params[p].id)]_vars

\* C16: a handler of create, update or delete whose store call fails answers
\* with a failure code that is neither the conflict code 409 nor the not-found
\* code 404.
C16_StoreFailureGeneric ==
    [][\A p \in Procs :
          ( /\ Replies(p)
            /\ params[p].op \in {"create", "update", "delete"}
            /\ local'[p].error = "store" )
          => reply'[p].code \notin {200, 201, 204, 404, 409}]_vars

\* C17: in the step in which createBooking answers 201 for room R, R's status
\* becomes booked, whatever it was before, whatever bookings R has and whatever
\* the new interval is.
C17_CreateSetsBooked ==
    [][\A p \in Procs :
          (Replies(p) /\ params[p].op = "create" /\ reply'[p].code = 201)
              => /\ status'[params[p].roomId] = "booked"
                 /\ reply'[p].booking.roomId = params[p].roomId]_vars

\* the only request so far, a create on room r2 which was in maintenance, was
\* answered 201 and r2 is booked
C17_Witness ==
    \E p \in Procs :
        /\ started = 1
        /\ pc[p] = "done"
        /\ params[p].op = "create"
        /\ params[p].roomId = "r2"
        /\ store0.status["r2"] = "maintenance"
        /\ reply[p].code = 201
        /\ status["r2"] = "booked"

\* C18: in the step in which deleteBooking answers 204 for a booking of room R,
\* the booking was stored and is removed, every other booking stays as it is,
\* and R's status becomes available, whether or not R has other bookings.
C18_DeleteRemoves ==
    [][\A p \in Procs :
          (Replies(p) /\ params[p].op = "delete" /\ reply'[p].code = 204)
              => LET id == params[p].id
                 IN  /\ Exists(id)
                     /\ bookings'[id] = NoBooking
                     /\ \A j \in BookingIds \ {id} : bookings'[j] = bookings[j]
                     /\ status'[bookings[id].roomId] = "available"]_vars

\* room r1 held A and B and was booked; the only request so far, delete A, was
\* answered 204: A is gone, B is stored and r1 is available
C18_Witness ==
    \E p \in Procs :
        /\ started = 1
        /\ pc[p] = "done"
        /\ params[p].op = "delete"
        /\ params[p].id = 1
        /\ store0.bookings[1] = BookingA /\ store0.bookings[2] = BookingB
        /\ store0.status["r1"] = "booked"
        /\ reply[p].code = 204
        /\ bookings[1] = NoBooking
        /\ bookings[2] = BookingB
        /\ status["r1"] = "available"

\* C19: no step of an updateBooking handler, whatever it answers, changes the
\* roomId of the booking it updates or the status of any room.
C19_UpdateKeepsRoom ==
    [][\A p \in Procs :
          (params[p].op = "update" /\ Running(p) /\ pc'[p] # pc[p])
              => LET id == params[p].id
                 IN  /\ status' = status
                     /\ Exists(id) =>
                           /\ bookings'[id] # NoBooking
                           /\ bookings'[id].roomId = bookings[id].roomId
                     /\ ~Exists(id) => bookings' = bookings]_vars

\* the only request so far, an update of A = [0,1) to [0,2), was answered 200:
\* A has the new interval, its room is r1 as before, and no status has changed
C19_Witness ==
    \E p \in Procs :
        /\ started = 1
        /\ pc[p] = "done"
        /\ params[p].op = "update"
        /\ params[p].id = 1
        /\ params[p].startTime = 0 /\ params[p].endTime = 2
        /\ store0.bookings[1] = BookingA
        /\ reply[p].code = 200
        /\ bookings[1].startTime = 0 /\ bookings[1].endTime = 2
        /\ bookings[1].roomId = "r1"
        /\ status = store0.status

\* C20: in the step in which listBookings answers, the list has one entry for
\* every stored booking and no other entry, each entry carries its booking's
\* title, times and room, the entries are in descending startTime order, and
\* no booking, no id counter and no room status changes.
C20_ListAllDescending ==
    [][\A p \in Procs :
          (Replies(p) /\ params[p].op = "list" /\ local'[p].error = "none")
              => LET dto == reply'[p].bookingsDto
                 IN  /\ reply'[p].code = 200
                     /\ Len(dto) = Cardinality(Stored)
                     /\ {dto[k].id : k \in 1..Len(dto)} = Stored
                     /\ \A k \in 1..Len(dto) :
                           /\ dto[k].title = bookings[dto[k].id].title
                           /\ dto[k].startTime = bookings[dto[k].id].startTime
                           /\ dto[k].endTime = bookings[dto[k].id].endTime
                           /\ dto[k].room = bookings[dto[k].id].roomId
                     /\ \A k \in 1..(Len(dto) - 1) : dto[k].startTime >= dto[k + 1].startTime
                     /\ bookings' = bookings /\ nextId' = nextId /\ status' = status]_vars

\* the store holds A = [0,1) and B = [1,2); a listBookings was answered with
\* B first and A second
C20_Witness ==
    \E p \in Procs :
        /\ pc[p] = "done"
        /\ params[p].op = "list"
        /\ reply[p].code = 200
        /\ bookings[1] = BookingA /\ bookings[2] = BookingB
        /\ Len(reply[p].bookingsDto) = 2
        /\ reply[p].bookingsDto[1].id = 2
        /\ reply[p].bookingsDto[2].id = 1

\* C21: the step in which the conflict query of createBooking or updateBooking
\* returns changes no booking, no id counter and no room status, and the set of
\* bookings it returns is the set the same query returns when run again on the
\* tables as that step leaves them.
C21_ConflictCheckPure ==
    [][\A p \in Procs :
          ( /\ pc[p] \in {"c_findMany", "u_findMany"}
            /\ pc'[p] # pc[p]
            /\ local'[p].error = "none" )
          => LET room == IF pc[p] = "c_findMany" THEN params[p].roomId ELSE local[p].roomId
                 self == IF pc[p] = "c_findMany" THEN NoId ELSE params[p].id
                 listed == reply'[p].conflicts
                 returned == {listed[k].id : k \in 1..Len(listed)}
                 again == {i \in BookingIds \ {self} :
                              /\ bookings'[i] # NoBooking
                              /\ bookings'[i].roomId = room
                              /\ Overlaps(bookings'[i], params[p])}
             IN  /\ bookings' = bookings
                 /\ nextId' = nextId
                 /\ status' = status
                 /\ returned = again]_vars

\* two createBooking requests for the same room and interval have both run
\* their conflict query on the tables the service started on, and both were
\* answered with the same two conflicts
C21_Witness ==
    \E p, q \in Procs :
        /\ p # q
        /\ pc[p] = "done" /\ pc[q] = "done"
        /\ params[p].op = "create" /\ params[q].op = "create"
        /\ params[p].roomId = params[q].roomId
        /\ params[p].startTime = params[q].startTime
        /\ params[p].endTime = params[q].endTime
        /\ reply[p].code = 409 /\ reply[q].code = 409
        /\ Len(reply[p].conflicts) = 2
        /\ {reply[p].conflicts[k].id : k \in 1..2} = {reply[q].conflicts[k].id : k \in 1..2}
        /\ bookings = store0.bookings
        /\ status = store0.status

\* C22: started on available rooms without bookings, in every state a room
\* that has no stored booking does not have status booked.
C22_BookedHasBooking ==
    \A r \in Rooms :
        (\A i \in Stored : bookings[i].roomId # r) => status[r] # "booked"

\* C23: every conflict a conflict query lists is a booking of the room the
\* request is about, so that an overlapping booking of another room alone never
\* makes a 409; and a step of a create, update or delete handler about room R
\* (the room of the body for a create, the room of the booking as the handler
\* loaded it for an update or delete) changes no status and no booking of a
\* room other than R, and adds no booking to another room.
C23_OtherRoomsUntouched ==
    [][\A p \in Procs :
          (Running(p) /\ pc'[p] # pc[p] /\ params[p].op \in {"create", "update", "delete"})
              => LET id == params[p].id
                     R == IF params[p].op = "create" THEN params[p].roomId
                          ELSE local'[p].roomId
                     listed == reply'[p].conflicts
                 IN  /\ (params[p].op # "create" /\ R # "none" /\ Exists(id))
                           => bookings[id].roomId = R
                     /\ \A k \in 1..Len(listed) :
                           /\ Exists(listed[k].id)
                           /\ bookings[listed[k].id].roomId = R
                     /\ \A r \in Rooms \ {R} : status'[r] = status[r]
                     /\ \A i \in BookingIds :
                           \/ bookings'[i] = bookings[i]
                           \/ bookings[i] # NoBooking /\ bookings[i].roomId = R
                           \/ bookings'[i] # NoBooking /\ bookings'[i].roomId = R]_vars

\* room r1 holds A = [0,1); the only request so far, a create of [0,1) in room
\* r2, was answered 201: A and r1's status are as they were
C23_Witness ==
    \E p \in Procs :
        /\ started = 1
        /\ pc[p] = "done"
        /\ params[p].op = "create"
        /\ params[p].roomId = "r2"
        /\ params[p].startTime = 0 /\ params[p].endTime = 1
        /\ store0.bookings[1] = BookingA
        /\ reply[p].code = 201
        /\ bookings[1] = BookingA
        /\ status["r1"] = store0.status["r1"]
        /\ \E i \in Stored : bookings[i].roomId = "r2"

\* C24: no step of an updateBooking handler stores a booking where none was
\* stored; an updateBooking that reaches its write after the booking has been
\* deleted is answered 404 and changes no booking; and an updateBooking is
\* answered 200 only for a booking that is stored.
C24_UpdateNeverAdds ==
    [][\A p \in Procs :
          (params[p].op = "update" /\ Running(p) /\ pc'[p] # pc[p])
              => LET id == params[p].id
                 IN  /\ \A i \in BookingIds :
                           bookings[i] = NoBooking => bookings'[i] = NoBooking
                     /\ (pc[p] = "u_update" /\ ~Exists(id))
                           => /\ pc'[p] = "done"
                              /\ reply'[p].code = 404
                              /\ bookings' = bookings
                     /\ (pc'[p] = "done" /\ reply'[p].code = 200) => Exists(id)]_vars

\* an updateBooking found its booking, a concurrent deleteBooking of the same
\* id then committed and was answered 204, and the update's write found no row:
\* it was answered 404 and the booking is not stored
C24_Witness ==
    \E p, q \in Procs :
        /\ p # q
        /\ pc[p] = "done" /\ pc[q] = "done"
        /\ params[p].op = "update" /\ params[q].op = "delete"
        /\ params[p].id = params[q].id
        /\ local[p].roomId # "none"
        /\ local[p].error = "notfound"
        /\ reply[p].code = 404
        /\ reply[q].code = 204
        /\ params[p].id \in BookingIds
        /\ bookings[params[p].id] = NoBooking

\* C25: when the two requests received are deleteBooking of the same id, which
\* was stored when the service started, and both have been answered without a
\* store failure, one was answered 204, the other 404, and the booking is not
\* stored.
C25_OneDeleteWins ==
    \A p, q \in Procs :
        ( /\ p # q
          /\ started = 2
          /\ pc[p] = "done" /\ pc[q] = "done"
          /\ params[p].op = "delete" /\ params[q].op = "delete"
          /\ params[p].id = params[q].id
          /\ params[p].id \in BookingIds
          /\ store0.bookings[params[p].id] # NoBooking
          /\ local[p].error # "store" /\ local[q].error # "store" )
        => /\ \/ reply[p].code = 204 /\ reply[q].code = 404
              \/ reply[p].code = 404 /\ reply[q].code = 204
           /\ bookings[params[p].id] = NoBooking

\* two deleteBooking requests for A both found A in their transaction; one
\* committed and was answered 204, the other's delete then found no row and
\* was answered 404; A is not stored
C25_Witness ==
    \E p, q \in Procs :
        /\ p # q
        /\ started = 2
        /\ pc[p] = "done" /\ pc[q] = "done"
        /\ params[p].op = "delete" /\ params[q].op = "delete"
        /\ params[p].id = 1 /\ params[q].id = 1
        /\ store0.bookings[1] = BookingA
        /\ local[p].roomId = "r1" /\ local[q].roomId = "r1"
        /\ reply[p].code = 204
        /\ reply[q].code = 404 /\ local[q].error = "notfound"
        /\ bookings[1] = NoBooking

\* C26: in the booking form, the step in which a save request is answered
\* leaves isLoading false; if the request failed, that step keeps the four
\* field values and editingBooking as they were; if it succeeded, the fields
\* are empty and editingBooking is null afterwards; a save request is only
\* sent while isLoading is false, isLoading is true exactly while a request is
\* awaiting its answer, and the form never has two requests awaiting theirs.
C26_FormSubmit ==
    /\ [](/\ Len(saves.pending) <= 1
          /\ form.isLoading <=> (Len(saves.pending) = 1))
    /\ [][/\ Len(saves'.pending) > Len(saves.pending)
               => /\ ~form.isLoading
                  /\ form'.isLoading
                  /\ ~RequiredMissing(form)
          /\ Len(saves'.pending) < Len(saves.pending)
               => /\ ~form'.isLoading
                  /\ saves'.settled = "rejected"
                        => /\ form'.title = form.title
                           /\ form'.roomId = form.roomId
                           /\ form'.startTime = form.startTime
                           /\ form'.endTime = form.endTime
                           /\ editingBooking' = editingBooking
                  /\ saves'.settled = "fulfilled"
                        => /\ form'.title = EmptyInput
                           /\ form'.roomId = EmptyInput
                           /\ form'.startTime = EmptyTime
                           /\ form'.endTime = EmptyTime
                           /\ editingBooking' = NullBooking]_vars

\* booking A is being edited with its title changed in the form, the save
\* request has failed and no request is awaiting its answer: the form still
\* shows the changed title and A's times, in edit mode, with isLoading false
C26_Witness ==
    /\ saves.settled = "rejected"
    /\ saves.pending = <<>>
    /\ ~form.isLoading
    /\ editingBooking.id = 1
    /\ bookings[1] = BookingA
    /\ form.title = "b"
    /\ form.roomId = "r1"
    /\ form.startTime = ToLocalInput(0)
    /\ form.endTime = ToLocalInput(1)

====
